---- MODULE Spec2Model ----
(***************************************************************************)
(* UTM hardware simulator (firmware/src/main.cpp): setup(), loop(),        *)
(* runTest() and generateSample() as one sequential state machine.         *)
(*                                                                         *)
(* Numbers.  Sample values are held as integers in units of 1e-6, the      *)
(* resolution of println(value, 6); 50.0 is 50 * UNIT.  The rounding of    *)
(* the 32-bit float type below that resolution is not modelled.            *)
(* unsigned long is 32 bits wide on the SAM3X8E; such a value is held as   *)
(* two 16-bit limbs [hi, lo] because TLC's integers are 32-bit signed,     *)
(* and all arithmetic on it wraps modulo 2^32.                             *)
(***************************************************************************)
EXTENDS Integers, Sequences, FiniteSets, TLC

VARIABLES
    pc,               \* position of the single thread of control
    testCount,        \* unsigned long testCount (line 37)
    currentPattern,   \* Pattern currentPattern (line 36)
    randomWalkValue,  \* float randomWalkValue (line 43), in 1e-6
    i,                \* loop index of runTest's for loop (line 98)
    value,            \* local "value" of runTest (line 100), in 1e-6
    led,              \* level of LED_PIN
    blinkI,           \* loop index of setup's blink loop (line 139)
    startTime,        \* local startTime of setup (line 130)
    clock,            \* millis(): the platform's millisecond clock
    readyA,           \* (bool)Serial
    readyB,           \* (bool)SerialUSB
    chanA,            \* lines written to Serial since the run in progress began
    chanB,            \* lines written to SerialUSB since the run in progress began
    samplesPerTest,   \* the configured SAMPLES_PER_TEST of this build
    idxLog,           \* history: sampleIndex of each generateSample call of the run
    patternLog,       \* history: pattern of each run started, in order
    entryDrift,       \* history: randomWalkValue differed from 50.0 when runTest was entered
    everReady,        \* history: some channel has reported readiness
    runsLeft,         \* runs the model still lets start
    waited            \* history: milliseconds of delay() since the latest generateSample call

vars == <<pc, testCount, currentPattern, randomWalkValue, i, value, led, blinkI,
          startTime, clock, readyA, readyB, chanA, chanB, samplesPerTest,
          idxLog, patternLog, entryDrift, everReady, runsLeft, waited>>

----------------------------------------------------------------------------
(* Bounds of the exploration *)

MaxSamples == 3
MaxRuns == 4
TickMs == 2500
WalkTail == 3
WrapBack == 2
LiveSamples == 2

----------------------------------------------------------------------------
(* Configuration, lines 19-25 *)

SAMPLES_PER_TEST == 100
SAMPLE_RATE_HZ == 10
PAUSE_BETWEEN_TESTS_MS == 2000
SampleIntervalSeconds == 1 \div SAMPLE_RATE_HZ

SAMPLE_INTERVAL_MS == 1000 \div SAMPLE_RATE_HZ

(* enum Pattern, lines 28-33 *)
PATTERN_SINE == 0
PATTERN_RAMP == 1
PATTERN_RANDOM_WALK == 2
PATTERN_COUNT == 3

LOW == 0
HIGH == 1

UNIT == 1000000
WALK_START == 50 * UNIT
GATE_TIMEOUT_MS == 5000

----------------------------------------------------------------------------
(* unsigned long: 32 bits as two 16-bit limbs *)

LIMB == 65536

Ul(h, l) == [hi |-> h, lo |-> l]

UlZero == Ul(0, 0)

(* x + n modulo 2^32, for 0 <= n < 2^30 *)
UlAdd(x, n) ==
    LET s == x.lo + n
    IN  Ul((x.hi + (s \div LIMB)) % LIMB, s % LIMB)

(* a - b modulo 2^32 *)
UlSub(a, b) ==
    LET l == a.lo - b.lo
        borrow == IF l < 0 THEN 1 ELSE 0
    IN  Ul((a.hi - b.hi - borrow) % LIMB, l % LIMB)

(* x > n, for 0 <= n < 2^31 *)
UlGreater(x, n) ==
    \/ x.hi > n \div LIMB
    \/ x.hi = n \div LIMB /\ x.lo > n % LIMB

(* x % m, for 0 < m < 2^15 *)
UlMod(x, m) == (((x.hi % m) * (LIMB % m)) + x.lo) % m

----------------------------------------------------------------------------
(* generateSample, lines 48-84 *)

(* random(howsmall, howbig) of the Arduino core draws from howsmall..howbig-1 *)
random(howsmall, howbig) == howsmall..(howbig - 1)

(* The draws explored: both ends of the range and a value between *)
Draws(howsmall, howbig) ==
    {n \in random(howsmall, howbig) :
        n \in {howsmall, howsmall \div 2, howbig - 1}}

(* random(..) / 100.0 *)
Noise(n) == n * (UNIT \div 100)

(* sin(2*pi*k/300) in 1e-6, k = 0..75 *)
SinQuarter ==
    <<0, 20942, 41876, 62791, 83678, 104528, 125333, 146083, 166769, 187381,
      207912, 228351, 248690, 268920, 289032, 309017, 328867, 348572, 368125,
      387516, 406737, 425779, 444635, 463296, 481754, 500000, 518027, 535827,
      553392, 570714, 587785, 604599, 621148, 637424, 653421, 669131, 684547,
      699663, 714473, 728969, 743145, 756995, 770513, 783693, 796530, 809017,
      821149, 832921, 844328, 855364, 866025, 876307, 886204, 895712, 904827,
      913545, 921863, 929776, 937282, 944376, 951057, 957319, 963163, 968583,
      973579, 978148, 982287, 985996, 989272, 992115, 994522, 996493, 998027,
      999123, 999781, 1000000>>

(* sin(t * 2.0 * PI) in 1e-6 for t = sampleIndex / totalSamples *)
SinTurn(sampleIndex, totalSamples) ==
    LET q == Len(SinQuarter) - 1
        k == ((sampleIndex * 4 * q) \div totalSamples) % (4 * q)
    IN  IF k <= q THEN SinQuarter[k + 1]
        ELSE IF k <= 2 * q THEN SinQuarter[(2 * q - k) + 1]
        ELSE IF k <= 3 * q THEN -SinQuarter[(k - 2 * q) + 1]
        ELSE -SinQuarter[(4 * q - k) + 1]

(* 50.0 + 45.0 * sin(angle), lines 55-56 *)
SineRawHalfTurn(sampleIndex, totalSamples) ==
    50 * UNIT + 45 * SinTurn(sampleIndex, 2 * totalSamples)

SineRaw(sampleIndex, totalSamples) ==
    50 * UNIT + 45 * SinTurn(sampleIndex, totalSamples)

(* t * 100.0, line 63 *)
RampRawInteger(sampleIndex, totalSamples) ==
    ((sampleIndex \div totalSamples) * 100) * UNIT

RampRaw(sampleIndex, totalSamples) ==
    ((100 * sampleIndex) \div totalSamples) * UNIT
        + (((100 * sampleIndex) % totalSamples) * UNIT) \div totalSamples

(* lines 72-73 *)
ClampNoUpper(v) == IF v < 0 THEN 0 ELSE v

ClampNoLower(v) == IF v > 100 * UNIT THEN 100 * UNIT ELSE v

Clamp(v) ==
    LET w == IF v < 0 THEN 0 ELSE v
    IN  IF w > 100 * UNIT THEN 100 * UNIT ELSE w

(* The draws of one generateSample call under a pattern *)
NoiseDraws(pattern) ==
    IF pattern = PATTERN_SINE THEN Draws(-500, 500)
    ELSE IF pattern \in {PATTERN_RAMP, PATTERN_RANDOM_WALK} THEN Draws(-200, 200)
    ELSE {0}

(* Every draw one generateSample call can make under a pattern *)
NoiseRange(pattern) ==
    IF pattern = PATTERN_SINE THEN random(-500, 500)
    ELSE IF pattern \in {PATTERN_RAMP, PATTERN_RANDOM_WALK} THEN random(-200, 200)
    ELSE {}

(* The value returned and the randomWalkValue left behind *)
generateSampleSharedState(pattern, sampleIndex, totalSamples, walk, n) ==
    IF pattern = PATTERN_SINE THEN
        [value |-> SineRaw(sampleIndex, totalSamples) + Noise(n), walk |-> walk]
    ELSE IF pattern = PATTERN_RAMP THEN
        LET v == RampRaw(sampleIndex, totalSamples) + Noise(n)
        IN  [value |-> v, walk |-> v]
    ELSE IF pattern = PATTERN_RANDOM_WALK THEN
        LET w == Clamp(walk + Noise(n))
        IN  [value |-> w, walk |-> w]
    ELSE [value |-> 50 * UNIT, walk |-> walk]

generateSample(pattern, sampleIndex, totalSamples, walk, n) ==
    IF pattern = PATTERN_SINE THEN
        [value |-> SineRaw(sampleIndex, totalSamples) + Noise(n), walk |-> walk]
    ELSE IF pattern = PATTERN_RAMP THEN
        [value |-> RampRaw(sampleIndex, totalSamples) + Noise(n), walk |-> walk]
    ELSE IF pattern = PATTERN_RANDOM_WALK THEN
        LET w == Clamp(walk + Noise(n))
        IN  [value |-> w, walk |-> w]
    ELSE [value |-> 50 * UNIT, walk |-> walk]

----------------------------------------------------------------------------
(* Pieces of runTest and setup *)

(* (Pattern)(testCount % PATTERN_COUNT), line 96 *)
SelectPatternBeforeIncrement(count) == UlMod(UlSub(count, Ul(0, 1)), PATTERN_COUNT)

SelectPatternWide(count) == UlMod(count, PATTERN_COUNT + 1)

SelectPattern(count) == UlMod(count, PATTERN_COUNT)

(* i < SAMPLES_PER_TEST, line 98 *)
ForCondShort(index, total) == index < total - 1

ForCondInclusive(index, total) == index <= total

ForCond(index, total) == index < total

(* (i & 1) ? HIGH : LOW, line 107 *)
LedLevel(index) == IF index % 2 = 1 THEN HIGH ELSE LOW

(* millis() - startTime > 5000, line 132 *)
GateTimedOutNoWrap(now, start) ==
    LET s == start.lo + GATE_TIMEOUT_MS
        dh == start.hi + (s \div LIMB)
        dl == s % LIMB
    IN  now.hi > dh \/ (now.hi = dh /\ now.lo > dl)

GateTimedOut(now, start) == UlGreater(UlSub(now, start), GATE_TIMEOUT_MS)

(* !Serial && !SerialUSB, line 131 *)
GateWaits(a, b) == ~a /\ ~b

Running == pc \in {"for_cond", "generate", "write_a", "write_b", "led", "delay", "led_off"}

Idle == pc \in {"pause", "loop"}

InGate == pc \in {"gate_cond", "gate_timeout"}

envVars == <<clock, readyA, readyB, everReady>>

runVars == <<testCount, currentPattern, randomWalkValue, i, value,
             chanA, chanB, idxLog, patternLog, entryDrift, runsLeft>>

setupVars == <<blinkI, startTime>>

(* delay(ms): returns once the clock has advanced by ms *)
delay(ms) ==
    /\ clock' = UlAdd(clock, ms)
    /\ waited' = waited + ms

----------------------------------------------------------------------------
(* Initial state: the globals as defined at lines 36-43, before setup() *)

BootClocks == {UlZero, Ul(LIMB - 1, LIMB - 3000)}

Init ==
    /\ pc = "setup"
    /\ testCount = UlZero
    /\ currentPattern = PATTERN_SINE
    /\ randomWalkValue = WALK_START
    /\ i = 0
    /\ value = 0
    /\ led = LOW
    /\ blinkI = 0
    /\ startTime = UlZero
    /\ clock \in BootClocks
    /\ readyA = FALSE
    /\ readyB = FALSE
    /\ chanA = <<>>
    /\ chanB = <<>>
    /\ samplesPerTest \in 0..MaxSamples
    /\ idxLog = <<>>
    /\ patternLog = <<>>
    /\ entryDrift = FALSE
    /\ everReady = FALSE
    /\ runsLeft = MaxRuns
    /\ waited = 0

----------------------------------------------------------------------------
(* setup(), lines 117-145 *)

(* lines 119-130: LED low, ports opened, startTime = millis() *)
SetupBegin ==
    /\ pc = "setup"
    /\ led' = LOW
    /\ startTime' = clock
    /\ pc' = "gate_cond"
    /\ UNCHANGED <<envVars, runVars, blinkI, samplesPerTest>>
    /\ UNCHANGED waited

(* line 131: while (!Serial && !SerialUSB) *)
GateCond ==
    /\ pc = "gate_cond"
    /\ pc' = IF GateWaits(readyA, readyB) THEN "gate_timeout" ELSE "seed"
    /\ UNCHANGED <<envVars, runVars, setupVars, led, samplesPerTest>>
    /\ UNCHANGED waited

(* line 132: if (millis() - startTime > 5000) break *)
GateTimeout ==
    /\ pc = "gate_timeout"
    /\ pc' = IF GateTimedOut(clock, startTime) THEN "seed" ELSE "gate_cond"
    /\ UNCHANGED <<envVars, runVars, setupVars, led, samplesPerTest>>
    /\ UNCHANGED waited

(* line 136: randomSeed(analogRead(0)); the draws are arbitrary either way *)
Seed ==
    /\ pc = "seed"
    /\ blinkI' = 0
    /\ pc' = "blink"
    /\ UNCHANGED <<envVars, runVars, startTime, led, samplesPerTest>>
    /\ UNCHANGED waited

(* lines 139-141: i < 3; digitalWrite(HIGH); delay(100) *)
BlinkOn ==
    /\ pc = "blink"
    /\ IF blinkI < 3
       THEN /\ led' = HIGH
            /\ delay(100)
            /\ pc' = "blink_off"
       ELSE /\ pc' = "loop"
            /\ UNCHANGED <<led, clock, waited>>
    /\ UNCHANGED <<readyA, readyB, everReady, runVars, setupVars, samplesPerTest>>

(* lines 142-143 and i++ *)
BlinkOff ==
    /\ pc = "blink_off"
    /\ led' = LOW
    /\ delay(100)
    /\ blinkI' = blinkI + 1
    /\ pc' = "blink"
    /\ UNCHANGED <<readyA, readyB, everReady, runVars, startTime, samplesPerTest>>

----------------------------------------------------------------------------
(* loop() and runTest(), lines 89-115 and 147-153 *)

(* lines 149, 90-98: call, testCount++, reset, select, i = 0 *)
RunTestBeginNoReset ==
    /\ pc = "loop"
    /\ runsLeft > 0
    /\ testCount' = UlAdd(testCount, 1)
    /\ randomWalkValue' = randomWalkValue
    /\ currentPattern' = SelectPattern(testCount')
    /\ i' = 0
    /\ chanA' = <<>>
    /\ chanB' = <<>>
    /\ idxLog' = <<>>
    /\ patternLog' = Append(patternLog, currentPattern')
    /\ entryDrift' = (randomWalkValue # WALK_START)
    /\ runsLeft' = runsLeft - 1
    /\ pc' = "for_cond"
    /\ UNCHANGED <<envVars, setupVars, value, led, samplesPerTest>>
    /\ UNCHANGED waited

RunTestBegin ==
    /\ pc = "loop"
    /\ runsLeft > 0
    /\ testCount' = UlAdd(testCount, 1)
    /\ randomWalkValue' = WALK_START
    /\ currentPattern' = SelectPattern(testCount')
    /\ i' = 0
    /\ chanA' = <<>>
    /\ chanB' = <<>>
    /\ idxLog' = <<>>
    /\ patternLog' = Append(patternLog, currentPattern')
    /\ entryDrift' = (randomWalkValue # WALK_START)
    /\ runsLeft' = runsLeft - 1
    /\ pc' = "for_cond"
    /\ UNCHANGED <<envVars, setupVars, value, led, samplesPerTest>>
    /\ UNCHANGED waited

(* line 98: i < SAMPLES_PER_TEST *)
ForTest ==
    /\ pc = "for_cond"
    /\ pc' = IF ForCond(i, samplesPerTest) THEN "generate" ELSE "led_off"
    /\ UNCHANGED <<envVars, runVars, setupVars, led, samplesPerTest>>
    /\ UNCHANGED waited

(* line 100: value = generateSample(i, SAMPLES_PER_TEST) *)
Generate ==
    /\ pc = "generate"
    /\ \E n \in NoiseDraws(currentPattern) :
         LET r == generateSample(currentPattern, i, samplesPerTest, randomWalkValue, n)
         IN  /\ value' = r.value
             /\ randomWalkValue' = r.walk
    /\ idxLog' = Append(idxLog, i)
    /\ pc' = "write_a"
    /\ UNCHANGED <<envVars, setupVars, testCount, currentPattern, i, chanA, chanB,
                   patternLog, entryDrift, runsLeft, led, samplesPerTest>>
    /\ waited' = 0

(* line 103: Serial.println(value, 6) *)
WriteAIfReady ==
    /\ pc = "write_a"
    /\ chanA' = IF readyA THEN Append(chanA, value) ELSE chanA
    /\ pc' = "write_b"
    /\ UNCHANGED <<envVars, setupVars, testCount, currentPattern, randomWalkValue, i,
                   value, chanB, idxLog, patternLog, entryDrift, runsLeft, led,
                   samplesPerTest>>
    /\ UNCHANGED waited

WriteA ==
    /\ pc = "write_a"
    /\ chanA' = Append(chanA, value)
    /\ pc' = "write_b"
    /\ UNCHANGED <<envVars, setupVars, testCount, currentPattern, randomWalkValue, i,
                   value, chanB, idxLog, patternLog, entryDrift, runsLeft, led,
                   samplesPerTest>>
    /\ UNCHANGED waited

(* line 104: SerialUSB.println(value, 6) *)
WriteBSkipped ==
    /\ pc = "write_b"
    /\ chanB' = IF i % 2 = 1 THEN chanB ELSE Append(chanB, value)
    /\ pc' = "led"
    /\ UNCHANGED <<envVars, setupVars, testCount, currentPattern, randomWalkValue, i,
                   value, chanA, idxLog, patternLog, entryDrift, runsLeft, led,
                   samplesPerTest>>
    /\ UNCHANGED waited

WriteB ==
    /\ pc = "write_b"
    /\ chanB' = Append(chanB, value)
    /\ pc' = "led"
    /\ UNCHANGED <<envVars, setupVars, testCount, currentPattern, randomWalkValue, i,
                   value, chanA, idxLog, patternLog, entryDrift, runsLeft, led,
                   samplesPerTest>>
    /\ UNCHANGED waited

(* line 107: digitalWrite(LED_PIN, (i & 1) ? HIGH : LOW) *)
Blink ==
    /\ pc = "led"
    /\ led' = LedLevel(i)
    /\ pc' = "delay"
    /\ UNCHANGED <<envVars, runVars, setupVars, samplesPerTest>>
    /\ UNCHANGED waited

(* line 110 and the i++ of line 98: delay(SAMPLE_INTERVAL_MS) *)
SampleDelayHang ==
    /\ pc = "delay"
    /\ UNCHANGED vars

SampleDelay ==
    /\ pc = "delay"
    /\ delay(SAMPLE_INTERVAL_MS)
    /\ i' = i + 1
    /\ pc' = "for_cond"
    /\ UNCHANGED <<readyA, readyB, everReady, setupVars, testCount, currentPattern,
                   randomWalkValue, value, chanA, chanB, idxLog, patternLog,
                   entryDrift, runsLeft, led, samplesPerTest>>

(* line 114 and the return: digitalWrite(LED_PIN, LOW) *)
LedOffMissing ==
    /\ pc = "led_off"
    /\ led' = led
    /\ pc' = "pause"
    /\ UNCHANGED <<envVars, runVars, setupVars, samplesPerTest>>
    /\ UNCHANGED waited

LedOff ==
    /\ pc = "led_off"
    /\ led' = LOW
    /\ pc' = "pause"
    /\ UNCHANGED <<envVars, runVars, setupVars, samplesPerTest>>
    /\ UNCHANGED waited

(* line 152: delay(PAUSE_BETWEEN_TESTS_MS) *)
PauseCounts ==
    /\ pc = "pause"
    /\ delay(PAUSE_BETWEEN_TESTS_MS)
    /\ testCount' = UlAdd(testCount, 1)
    /\ pc' = "loop"
    /\ UNCHANGED <<readyA, readyB, everReady, setupVars, led, samplesPerTest,
                   currentPattern, randomWalkValue, i, value, chanA, chanB, idxLog,
                   patternLog, entryDrift, runsLeft>>

Pause ==
    /\ pc = "pause"
    /\ delay(PAUSE_BETWEEN_TESTS_MS)
    /\ pc' = "loop"
    /\ UNCHANGED <<readyA, readyB, everReady, runVars, setupVars, led, samplesPerTest>>

----------------------------------------------------------------------------
(* The environment *)

(* The millisecond clock advances while the startup gate polls it; once the *)
(* timeout has elapsed the gate ends whatever the clock does next          *)
Tick ==
    /\ InGate
    /\ ~UlGreater(UlSub(clock, startTime), GATE_TIMEOUT_MS)
    /\ clock' = UlAdd(clock, TickMs)
    /\ UNCHANGED <<pc, readyA, readyB, everReady, runVars, setupVars, led, samplesPerTest>>
    /\ UNCHANGED waited

(* A host opens or closes one of the ports *)
ChannelChange ==
    /\ \/ readyA' = ~readyA /\ readyB' = readyB
       \/ readyB' = ~readyB /\ readyA' = readyA
    /\ everReady' = TRUE
    /\ UNCHANGED <<pc, clock, runVars, setupVars, led, samplesPerTest>>
    /\ UNCHANGED waited

----------------------------------------------------------------------------

SetupStep == SetupBegin \/ GateCond \/ GateTimeout \/ Seed \/ BlinkOn \/ BlinkOff

RunStep ==
    \/ RunTestBegin
    \/ ForTest
    \/ Generate
    \/ WriteA
    \/ WriteB
    \/ Blink
    \/ SampleDelay
    \/ LedOff
    \/ Pause

Program == SetupStep \/ RunStep

Next == Program \/ Tick \/ ChannelChange

Spec == Init /\ [][Next]_vars

(* The processor keeps executing the program and the clock keeps advancing; *)
(* nothing is assumed of the hosts.  Builds of up to LiveSamples samples.    *)
LiveInit == Init /\ samplesPerTest <= LiveSamples

LiveSpec == LiveInit /\ [][Next]_vars /\ WF_vars(Program) /\ WF_vars(Tick)

----------------------------------------------------------------------------
(* Late states.  A build with the shipped SAMPLES_PER_TEST needs at least 25 *)
(* samples of a random-walk run to bring the walk from 50 to a limit, and    *)
(* 2^32 runs to wrap testCount.  SpecLate starts in states the program is in *)
(* at those moments and follows loop() from there.                           *)

(* Any multiple of 0.01 in [0, 100] is a sum of 97 draws away from 50 *)
WalkStarts == {0, (3 * UNIT) \div 2, 50 * UNIT, 99 * UNIT, 100 * UNIT}

(* At the loop test of sample SAMPLES_PER_TEST - WalkTail of a random-walk run *)
InitWalk ==
    /\ pc = "for_cond"
    /\ testCount = Ul(0, PATTERN_RANDOM_WALK)
    /\ currentPattern = PATTERN_RANDOM_WALK
    /\ randomWalkValue \in WalkStarts
    /\ i = SAMPLES_PER_TEST - WalkTail
    /\ value = randomWalkValue
    /\ led = LedLevel(i - 1)
    /\ blinkI = 3
    /\ startTime = UlZero
    /\ clock = Ul(1, 0)
    /\ readyA \in BOOLEAN
    /\ readyB \in BOOLEAN
    /\ chanA = <<>>
    /\ chanB = <<>>
    /\ samplesPerTest = SAMPLES_PER_TEST
    /\ idxLog = [k \in 1..i |-> k - 1]
    /\ patternLog = <<PATTERN_RANDOM_WALK>>
    /\ entryDrift = FALSE
    /\ everReady = (readyA \/ readyB)
    /\ runsLeft = 0
    /\ waited = SAMPLE_INTERVAL_MS

(* Back in loop() after run number 2^32 - WrapBack *)
InitWrap ==
    /\ pc = "loop"
    /\ testCount = UlSub(UlZero, Ul(0, WrapBack))
    /\ currentPattern = SelectPattern(testCount)
    /\ samplesPerTest \in 0..MaxSamples
    /\ randomWalkValue \in
         IF currentPattern = PATTERN_RANDOM_WALK /\ samplesPerTest > 0
         THEN {WALK_START, WALK_START + Noise(-200)}
         ELSE {WALK_START}
    /\ i = samplesPerTest
    /\ value = 0
    /\ led = LOW
    /\ blinkI = 3
    /\ startTime = UlZero
    /\ clock = Ul(1, 0)
    /\ readyA \in BOOLEAN
    /\ readyB \in BOOLEAN
    /\ chanA = <<>>
    /\ chanB = <<>>
    /\ idxLog = [k \in 1..samplesPerTest |-> k - 1]
    /\ patternLog = <<>>
    /\ entryDrift = FALSE
    /\ everReady = (readyA \/ readyB)
    /\ runsLeft = MaxRuns
    /\ waited = IF samplesPerTest > 0
                THEN SAMPLE_INTERVAL_MS + PAUSE_BETWEEN_TESTS_MS
                ELSE 0

InitLate == InitWalk \/ InitWrap

NextLate == RunStep \/ ChannelChange

SpecLate == InitLate /\ [][NextLate]_vars

----------------------------------------------------------------------------
(* Claims *)

InRange(v) == 0 <= v /\ v <= 100 * UNIT

SeqSet(s) == {s[k] : k \in 1..Len(s)}

(* C1: randomWalkValue is in [0, 100] in every state, and so is every value *)
(* generated or written during a random-walk run.                           *)
C1_WalkInRange ==
    /\ InRange(randomWalkValue)
    /\ (currentPattern = PATTERN_RANDOM_WALK /\ Running) =>
         /\ \A v \in SeqSet(chanA) \cup SeqSet(chanB) : InRange(v)
         /\ pc \in {"write_a", "write_b"} => InRange(value)

(* A walk at 0.5 took a negative draw and was clamped to 0; one at 99 or    *)
(* above took the largest draw and was clamped to 100.                      *)
C1_Witness ==
    /\ currentPattern = PATTERN_RANDOM_WALK
    /\ Len(chanA) = 3
    /\ chanA[1] = UNIT \div 2
    /\ chanA[2] = 0
    /\ chanA[3] = 0

(* C2: at the start of every run, before its first sample is generated,     *)
(* randomWalkValue is exactly 50.0, and the first sample of a random-walk   *)
(* run is 50 plus one noise draw.                                           *)
C2_WalkResetAtRunStart ==
    /\ (pc \in {"for_cond", "generate"} /\ idxLog = <<>>) =>
         randomWalkValue = 50 * UNIT
    /\ (Running /\ currentPattern = PATTERN_RANDOM_WALK /\ Len(chanA) >= 1) =>
         \E n \in random(-200, 200) : chanA[1] = 50 * UNIT + n * 10000

(* A run is about to generate its first sample after a run that left the   *)
(* walk away from 50.                                                      *)
C2_Witness ==
    /\ pc = "generate"
    /\ idxLog = <<>>
    /\ entryDrift
    /\ randomWalkValue = 50 * UNIT

(* C3: the runs use Ramp, RandomWalk, Sine, Ramp, ... in this order from    *)
(* the first run on: run k uses pattern k mod 3, the value of testCount     *)
(* after the run's increment, for all of its samples.                       *)
C3_PatternOfRun ==
    /\ \A k \in 1..Len(patternLog) : patternLog[k] = k % 3
    /\ Len(patternLog) >= 1 => patternLog[1] = PATTERN_RAMP
    /\ Len(patternLog) >= 2 => patternLog[2] = PATTERN_RANDOM_WALK
    /\ Len(patternLog) >= 3 => patternLog[3] = PATTERN_SINE
    /\ Len(patternLog) >= 4 => patternLog[4] = PATTERN_RAMP
    /\ testCount = Ul(0, Len(patternLog))
    /\ Running => currentPattern = patternLog[Len(patternLog)]

(* The fourth run is writing a sample *)
C3_Witness ==
    /\ Len(patternLog) = 4
    /\ pc = "write_b"
    /\ currentPattern = PATTERN_RAMP

(* C4: every run uses the pattern that follows the previous run's in cyclic *)
(* order, and the same pattern as the run three runs before it.             *)
C4_RoundRobin ==
    /\ \A k \in 1..(Len(patternLog) - 1) :
         patternLog[k + 1] = (patternLog[k] + 1) % 3
    /\ \A k \in 1..(Len(patternLog) - 3) : patternLog[k + 3] = patternLog[k]

(* C5: a run calls generateSample for the indices 0, 1, 2, ... in order, N  *)
(* times in all, and the runner is back in loop() only after the N-th       *)
(* sample has been written to both channels.                                *)
C5_AllSamplesInOrder ==
    /\ \A k \in 1..Len(idxLog) : idxLog[k] = k - 1
    /\ Len(idxLog) <= samplesPerTest
    /\ (pc \in {"led_off", "pause"} \/ (pc = "loop" /\ patternLog # <<>>)) =>
         /\ Len(idxLog) = samplesPerTest
         /\ Len(chanA) = samplesPerTest
         /\ Len(chanB) = samplesPerTest
    /\ pc \in {"setup", "gate_cond", "gate_timeout", "seed", "blink", "blink_off"} =>
         patternLog = <<>>

(* The second run of a 3-sample build has returned *)
C5_Witness ==
    /\ pc = "pause"
    /\ samplesPerTest = 3
    /\ Len(patternLog) = 2
    /\ idxLog = <<0, 1, 2>>

(* C6: each sample is written once to Serial and then once to SerialUSB     *)
(* before the next one is generated; the lines on SerialUSB are a prefix of *)
(* those on Serial, at most one line shorter.                               *)
C6_BothChannels ==
    /\ Len(chanB) <= Len(chanA)
    /\ Len(chanA) <= Len(chanB) + 1
    /\ \A k \in 1..Len(chanB) : chanB[k] = chanA[k]
    /\ pc = "write_a" => Len(chanA) = Len(idxLog) - 1 /\ Len(chanB) = Len(idxLog) - 1
    /\ pc = "write_b" =>
         /\ Len(chanA) = Len(idxLog)
         /\ Len(chanB) = Len(idxLog) - 1
         /\ chanA[Len(chanA)] = value
    /\ pc \in {"led", "delay"} =>
         /\ Len(chanA) = Len(idxLog)
         /\ Len(chanB) = Len(idxLog)
         /\ chanB[Len(chanB)] = value
    /\ pc \in {"for_cond", "generate", "led_off", "pause"} =>
         Len(chanA) = Len(idxLog) /\ Len(chanB) = Len(idxLog)

(* The second sample of a run is on Serial and not yet on SerialUSB *)
C6_Witness ==
    /\ pc = "write_b"
    /\ Len(chanA) = 2
    /\ Len(chanB) = 1

(* C7: after sample i has been written the LED is on iff i is odd, and it   *)
(* is off whenever the runner is idle.                                      *)
C7_Indicator ==
    /\ pc = "delay" => (led = HIGH <=> i % 2 = 1)
    /\ pc = "delay" => (led = LOW <=> i % 2 = 0)
    /\ Idle => led = LOW

(* A run whose last sample had an odd index has returned *)
C7_Witness ==
    /\ pc = "pause"
    /\ samplesPerTest = 2
    /\ Len(idxLog) = 2
    /\ led = LOW

(* C8: every run that has started returns, and after a run the next one     *)
(* starts (as long as the model lets runs start).                           *)
C8_RunsForever ==
    /\ Running ~> (pc = "pause")
    /\ (Idle /\ runsLeft > 0) ~> Running

(* A later run is in progress *)
C8_Witness ==
    /\ pc = "delay"
    /\ Len(patternLog) = 3
    /\ i = samplesPerTest - 1

(* C9: the startup gate ends and loop() is reached; the gate is left at its *)
(* loop test only with a channel ready, never re-entered with one ready,    *)
(* and left at its timeout test exactly when more than 5000 ms have         *)
(* elapsed modulo 2^32.                                                     *)
C9_GateTerminates ==
    /\ <>(pc = "loop")
    /\ [][/\ (pc = "gate_cond" /\ pc' = "seed") => (readyA \/ readyB)
          /\ (pc = "gate_cond" /\ (readyA \/ readyB)) => pc' # "gate_timeout"
          /\ (pc = "gate_timeout" /\ pc' = "seed") =>
                UlGreater(UlSub(clock, startTime), 5000)
          /\ (pc = "gate_timeout" /\ UlGreater(UlSub(clock, startTime), 5000)) =>
                pc' # "gate_cond"]_vars

(* The gate timed out with no channel ever ready, the clock having wrapped *)
C9_Witness ==
    /\ pc = "seed"
    /\ ~everReady
    /\ startTime.hi = LIMB - 1
    /\ clock.hi = 0

(* C10: whatever the channels report, a run that has returned has written   *)
(* each of its samples to both channels, and testCount, currentPattern and  *)
(* the LED are what the number of runs alone determines.                    *)
C10_WritesIgnoreReadiness ==
    \A a, b \in BOOLEAN :
        (readyA = a /\ readyB = b /\ pc = "pause") =>
            /\ Len(chanA) = samplesPerTest
            /\ Len(chanB) = samplesPerTest
            /\ chanA = chanB
            /\ testCount.lo = Len(patternLog)
            /\ currentPattern = Len(patternLog) % 3
            /\ led = LOW

(* A run has returned with no channel ever ready *)
C10_Witness ==
    /\ pc = "pause"
    /\ ~everReady
    /\ samplesPerTest = 3
    /\ Len(chanA) = 3
    /\ Len(chanB) = 3

(* C11: the noise of a sample is any integer number of hundredths of the    *)
(* symmetric range, both ends included: -500..500 for Sine, -200..200 for   *)
(* Ramp and RandomWalk.                                                     *)
C11_NoiseSymmetric ==
    pc = "generate" =>
        /\ NoiseDraws(currentPattern) \subseteq NoiseRange(currentPattern)
        /\ currentPattern = PATTERN_SINE => NoiseRange(currentPattern) = -500..500
        /\ currentPattern \in {PATTERN_RAMP, PATTERN_RANDOM_WALK} =>
             NoiseRange(currentPattern) = -200..200

Limit(v) == IF v < 0 THEN 0 ELSE IF v > 100000000 THEN 100000000 ELSE v

WalkStep(prev, next) == \E n \in -200..199 : next = Limit(prev + n * 10000)

(* C12: in a random-walk run every sample is the previous sample of the run *)
(* (50 for the first) plus the noise, limited to [0, 100], and it is the    *)
(* value left in randomWalkValue.  Given the draws +2, -1, +2 from 50 the   *)
(* function returns 52, 51, 53, and a step to -3 returns and stores 0.      *)
C12_WalkStep ==
    /\ (Running /\ currentPattern = PATTERN_RANDOM_WALK) =>
         /\ \A k \in 2..Len(chanA) : WalkStep(chanA[k - 1], chanA[k])
         /\ (i = 0 /\ Len(chanA) >= 1) => WalkStep(50000000, chanA[1])
         /\ pc \in {"write_a", "write_b", "led", "delay"} => randomWalkValue = value
         /\ (pc = "write_a" /\ Len(chanA) >= 1) => WalkStep(chanA[Len(chanA)], value)
         /\ (pc # "write_a" /\ Len(chanA) >= 1) => randomWalkValue = chanA[Len(chanA)]
    /\ (pc = "generate" /\ currentPattern = PATTERN_RANDOM_WALK) =>
       LET s1 == generateSample(PATTERN_RANDOM_WALK, 0, 100, 50000000, 200)
           s2 == generateSample(PATTERN_RANDOM_WALK, 1, 100, s1.walk, -100)
           s3 == generateSample(PATTERN_RANDOM_WALK, 2, 100, s2.walk, 200)
           s4 == generateSample(PATTERN_RANDOM_WALK, 3, 100, -1000000, -200)
       IN  /\ <<s1.value, s2.value, s3.value>> = <<52000000, 51000000, 53000000>>
           /\ <<s1.walk, s2.walk, s3.walk>> = <<52000000, 51000000, 53000000>>
           /\ s4 = [value |-> 0, walk |-> 0]

(* A run from 50 with the draws -1, +1.99, -2 *)
C12_Witness ==
    /\ currentPattern = PATTERN_RANDOM_WALK
    /\ pc = "delay"
    /\ chanB = <<49000000, 50990000, 48990000>>
    /\ randomWalkValue = 48990000

(* v is 100 * index / total to within the resolution of 1e-6 *)
IsRamp(v, index, total) ==
    /\ total * v <= 100 * index * 1000000
    /\ 100 * index * 1000000 < total * v + total

(* C13: the sample of index i of a Ramp run is 100 * i / N plus the noise,  *)
(* not clamped; before the noise it is 0 at i = 0, never decreases with i,  *)
(* stays below 100, and for N = 100 it is 50 at i = 50.                     *)
C13_Ramp ==
    /\ (Running /\ currentPattern = PATTERN_RAMP) =>
         \A k \in 1..Len(chanA) :
            \E n \in -200..199 : IsRamp(chanA[k] - n * 10000, k - 1, samplesPerTest)
    /\ (pc = "generate" /\ currentPattern = PATTERN_RAMP /\ i = 0) =>
         /\ \A total \in {samplesPerTest, 100} :
              /\ RampRaw(0, total) = 0
              /\ \A index \in 0..(total - 2) :
                    RampRaw(index, total) <= RampRaw(index + 1, total)
              /\ \A index \in 0..(total - 1) : RampRaw(index, total) < 100 * 1000000
         /\ \A index \in 0..99 : RampRaw(index, 100) = index * 1000000
         /\ RampRaw(50, 100) = 50000000

(* A Ramp run of 3 samples whose first value is negative: 0 - 2, 33.333333  *)
(* + 1.99, 66.666666 - 1                                                    *)
C13_Witness ==
    /\ currentPattern = PATTERN_RAMP
    /\ pc = "delay"
    /\ samplesPerTest = 3
    /\ chanB = <<-2000000, 35323333, 65666666>>

(* 50 + 45 * sin(2 * pi * index / total) in 1e-6, for the totals whose sine *)
(* values are known in closed form: 0, 1, -1 and sqrt(3)/2                  *)
SineOf(index, total) ==
    IF total \in {1, 2} THEN 50000000
    ELSE IF total = 3 THEN <<50000000, 88971143, 11028857>>[index + 1]
    ELSE <<50000000, 95000000, 50000000, 5000000>>[index + 1]

(* v is w to within 45 times the resolution of the sine *)
Near(v, w) == v - w \in -45..45

(* v is a pre-noise value plus a draw of -500..499 hundredths *)
IsSineSample(v, index, total) ==
    \E d \in -45..45 :
        /\ (v - SineOf(index, total) - d) % 10000 = 0
        /\ (v - SineOf(index, total) - d) \div 10000 \in -500..499

(* C14: the sample of index i of a Sine run is 50 + 45 * sin(2 * pi * i / N) *)
(* plus the noise; before the noise it lies in [5, 95], and for N = 100 it  *)
(* is 95 at i = 25.                                                         *)
C14_Sine ==
    /\ (Running /\ currentPattern = PATTERN_SINE /\ samplesPerTest <= 4) =>
         \A k \in 1..Len(chanA) : IsSineSample(chanA[k], k - 1, samplesPerTest)
    /\ (pc = "generate" /\ currentPattern = PATTERN_SINE) =>
         /\ 5000000 <= SineRaw(i, samplesPerTest)
         /\ SineRaw(i, samplesPerTest) <= 95000000
         /\ samplesPerTest <= 4 => Near(SineRaw(i, samplesPerTest), SineOf(i, samplesPerTest))
    /\ (pc = "generate" /\ currentPattern = PATTERN_SINE /\ i = 0) =>
         /\ \A index \in 0..99 :
              5000000 <= SineRaw(index, 100) /\ SineRaw(index, 100) <= 95000000
         /\ SineRaw(0, 100) = 50000000
         /\ SineRaw(25, 100) = 95000000
         /\ SineRaw(50, 100) = 50000000
         /\ SineRaw(75, 100) = 5000000

(* The second sample of a 3-sample Sine run: 88.971143 with the draw -5 *)
C14_Witness ==
    /\ currentPattern = PATTERN_SINE
    /\ pc = "delay"
    /\ samplesPerTest = 3
    /\ Len(chanB) = 2
    /\ Near(chanB[2], 83971143)

(* C15: testCount and currentPattern change only in the step that starts a  *)
(* run, which adds exactly 1 to testCount before the first sample; every    *)
(* other step of the program leaves both unchanged.                         *)
C15_ChangedOnlyAtRunStart ==
    [][/\ (testCount' # testCount \/ currentPattern' # currentPattern) =>
             (pc = "loop" /\ pc' = "for_cond")
       /\ (pc = "loop" /\ pc' = "for_cond") =>
             /\ testCount'.lo = (testCount.lo + 1) % 65536
             /\ testCount'.hi =
                  IF testCount.lo = 65535 THEN (testCount.hi + 1) % 65536
                  ELSE testCount.hi
             /\ idxLog' = <<>>
             /\ Len(patternLog') = Len(patternLog) + 1
       /\ pc \in {"for_cond", "generate", "write_a", "write_b", "led", "delay",
                  "led_off", "pause"} =>
             /\ testCount' = testCount
             /\ currentPattern' = currentPattern
             /\ patternLog' = patternLog]_vars

(* The second run of a 3-sample build has returned: two increments *)
C15_Witness ==
    /\ pc = "pause"
    /\ samplesPerTest = 3
    /\ Len(chanB) = 3
    /\ Len(patternLog) = 2
    /\ testCount = [hi |-> 0, lo |-> 2]

(* C16: a Sine or Ramp sample leaves randomWalkValue unchanged, so it is    *)
(* 50.0 throughout every Sine and Ramp run; it changes only when a          *)
(* random-walk sample is generated and when a run starts.                   *)
C16_WalkFrame ==
    /\ []((Running /\ currentPattern \in {PATTERN_SINE, PATTERN_RAMP}) =>
             randomWalkValue = 50000000)
    /\ [][/\ (pc = "generate" /\ currentPattern # PATTERN_RANDOM_WALK) =>
                randomWalkValue' = randomWalkValue
          /\ randomWalkValue' # randomWalkValue =>
                \/ pc = "generate" /\ currentPattern = PATTERN_RANDOM_WALK
                \/ pc = "loop" /\ pc' = "for_cond"]_vars

(* The last sample of a Sine run that followed a drifted random walk *)
C16_Witness ==
    /\ currentPattern = PATTERN_SINE
    /\ entryDrift
    /\ pc = "led_off"
    /\ Len(chanB) = 3
    /\ randomWalkValue = 50000000

(* C17: every generateSample call has totalSamples > 0 and                  *)
(* 0 <= sampleIndex < totalSamples, whatever SAMPLES_PER_TEST is: with 0    *)
(* the loop body is never entered.                                          *)
C17_IndexInRange ==
    /\ pc = "generate" =>
         /\ samplesPerTest > 0
         /\ 0 <= i
         /\ i < samplesPerTest
    /\ \A k \in 1..Len(idxLog) : 0 <= idxLog[k] /\ idxLog[k] < samplesPerTest
    /\ samplesPerTest = 0 => idxLog = <<>> /\ chanA = <<>>

(* The last call of a run is about to be made *)
C17_Witness ==
    /\ pc = "generate"
    /\ samplesPerTest = 3
    /\ i = 2

(* A run of a build with SAMPLES_PER_TEST = 0 has returned without a call *)
C17_ZeroSamplesRun ==
    /\ pc = "pause"
    /\ samplesPerTest = 0
    /\ Len(patternLog) = 2

(* C18: whenever generateSample is called currentPattern is Sine, Ramp or   *)
(* RandomWalk, also on both sides of testCount wrapping to 0.               *)
C18_PatternKnown ==
    /\ currentPattern \in {PATTERN_SINE, PATTERN_RAMP, PATTERN_RANDOM_WALK}
    /\ pc = "generate" => currentPattern \in 0..2
    /\ \A k \in 1..Len(patternLog) : patternLog[k] \in 0..2

(* The first call of the run in which testCount wrapped to 0 *)
C18_Witness ==
    /\ pc = "generate"
    /\ testCount = [hi |-> 0, lo |-> 0]
    /\ patternLog # <<>>
    /\ i = 0

(* C19: counting the program's waits, each sample is followed by a wait of  *)
(* 1000 / SAMPLE_RATE_HZ = 100 ms and each run by one of 2000 ms; the next  *)
(* sample of a run is generated 100 ms after the previous one, the first    *)
(* sample of the next run 2100 ms after the last one of the run before.     *)
C19_Waits ==
    /\ pc = "delay" => SAMPLE_INTERVAL_MS = 100
    /\ pc \in {"write_a", "write_b", "led", "delay"} => waited = 0
    /\ (pc \in {"for_cond", "generate"} /\ i > 0) => waited = 100
    /\ (pc \in {"led_off", "pause"} /\ samplesPerTest > 0) => waited = 100
    /\ (pc = "loop" /\ patternLog # <<>> /\ samplesPerTest > 0) => waited = 2100
    /\ (pc \in {"for_cond", "generate"} /\ i = 0 /\ Len(patternLog) >= 2
          /\ samplesPerTest > 0) => waited = 2100

(* The first sample of the second run is about to be generated *)
C19_Witness ==
    /\ pc = "generate"
    /\ i = 0
    /\ Len(patternLog) = 2
    /\ waited = 2100

====
